---- MODULE Spec2Model ----
(***************************************************************************)
(* Model of src/script.js: the Tic-Tac-Toe session (state object, makeMove, *)
(* undoMove, newGame, computerMove, minimax) together with the browser's    *)
(* timer queue and the event listeners bound in bindEvents.                 *)
(***************************************************************************)
EXTENDS Integers, Sequences, FiniteSets, TLC

VARIABLES board, currentPlayer, mode, difficulty, gameOver, scores,
          moveHistory, timers, pointerEvents, popupHidden, lastCall, used

vars == <<board, currentPlayer, mode, difficulty, gameOver, scores,
          moveHistory, timers, pointerEvents, popupHidden, lastCall, used>>

(* ---------------- bounds of the exploration ---------------- *)
\* a click or a random pick lands on one of the first MaxChoices empty cells
MaxChoices == 2
\* moves accepted by makeMove in one behaviour, over all its rounds
MaxMoves == 9
\* callbacks pending in the timer queue
MaxTimers == 1
\* mode / difficulty changes in one behaviour
MaxConfigChanges == 2
\* undos that take a move back in one behaviour
MaxUndos == 1
\* budget of the specification that follows one round with repeated undo
RoundMoves == 7
RoundUndos == 3

(* ---------------- data ---------------- *)
Cells == 0..8
\* the key "undefined": board[undefined] is a property of the array object
\* that Array.prototype.fill / every / map never visit
UNDEF == -1
Slots == Cells \cup {UNDEF}
NULL == "null"
Infinity == 1000

winPatterns ==
    << <<0, 1, 2>>, <<3, 4, 5>>, <<6, 7, 8>>,
       <<0, 3, 6>>, <<1, 4, 7>>, <<2, 5, 8>>,
       <<0, 4, 8>>, <<2, 4, 6>> >>

Other(p) == IF p = "X" THEN "O" ELSE "X"

EmptyBoard == [s \in Slots |-> NULL]

\* state.board.fill(null): indices 0..8 only, other properties are kept
FillNull(b) == [s \in Slots |-> IF s \in Cells THEN NULL ELSE b[s]]

ZeroScores == [X |-> 0, O |-> 0, Draw |-> 0]

\* the state object together with the DOM bits and the timer queue
State ==
    [board |-> board, currentPlayer |-> currentPlayer, mode |-> mode,
     difficulty |-> difficulty, gameOver |-> gameOver, scores |-> scores,
     moveHistory |-> moveHistory, timers |-> timers,
     pointerEvents |-> pointerEvents, popupHidden |-> popupHidden]

Becomes(st) ==
    /\ board' = st.board
    /\ currentPlayer' = st.currentPlayer
    /\ mode' = st.mode
    /\ difficulty' = st.difficulty
    /\ gameOver' = st.gameOver
    /\ scores' = st.scores
    /\ moveHistory' = st.moveHistory
    /\ timers' = st.timers
    /\ pointerEvents' = st.pointerEvents
    /\ popupHidden' = st.popupHidden

(* ---------------- core game logic ---------------- *)
checkWinOnBoard(b, player) ==
    \E k \in 1..Len(winPatterns) :
        \A j \in 1..3 : b[winPatterns[k][j]] = player

\* checkWin with the rows only
checkWinRowsOnly(st, player) ==
    \E k \in 1..3 : \A j \in 1..3 : st.board[winPatterns[k][j]] = player

checkWin(st, player) == checkWinOnBoard(st.board, player)

boardFull(b) == \A c \in Cells : b[c] # NULL

\* endGame showing the popup without ending the round
endGameOpen(st) == [st EXCEPT !.popupHidden = FALSE]

endGame(st) == [st EXCEPT !.gameOver = TRUE, !.popupHidden = FALSE]

computerMoveTimer == [fn |-> "computerMove", delay |-> 400, index |-> UNDEF]
makeMoveTimer(i) == [fn |-> "makeMove", delay |-> 200, index |-> i]

\* makeMove testing the full board before the win
makeMoveDrawFirst(st, index, player) ==
    IF st.board[index] # NULL \/ st.gameOver THEN st
    ELSE LET s1 == [st EXCEPT !.board[index] = player,
                              !.moveHistory = Append(@, [index |-> index, player |-> player])]
             s2 == IF boardFull(s1.board)
                     THEN endGame([s1 EXCEPT !.scores["Draw"] = @ + 1])
                   ELSE IF checkWin(s1, player)
                     THEN endGame([s1 EXCEPT !.scores[player] = @ + 1])
                   ELSE [s1 EXCEPT !.currentPlayer = Other(@)]
         IN  IF s2.mode = "vsComputer" /\ s2.currentPlayer = "O" /\ ~s2.gameOver
               THEN [s2 EXCEPT !.timers = Append(@, computerMoveTimer)]
               ELSE s2

\* makeMove without the gameOver test
makeMoveAfterEnd(st, index, player) ==
    IF st.board[index] # NULL THEN st
    ELSE LET s1 == [st EXCEPT !.board[index] = player,
                              !.moveHistory = Append(@, [index |-> index, player |-> player])]
             s2 == IF checkWin(s1, player)
                     THEN endGame([s1 EXCEPT !.scores[player] = @ + 1])
                   ELSE IF boardFull(s1.board)
                     THEN endGame([s1 EXCEPT !.scores["Draw"] = @ + 1])
                   ELSE [s1 EXCEPT !.currentPlayer = Other(@)]
         IN  IF s2.mode = "vsComputer" /\ s2.currentPlayer = "O" /\ ~s2.gameOver
               THEN [s2 EXCEPT !.timers = Append(@, computerMoveTimer)]
               ELSE s2

makeMove(st, index, player) ==
    IF st.board[index] # NULL \/ st.gameOver THEN st
    ELSE LET s1 == [st EXCEPT !.board[index] = player,
                              !.moveHistory = Append(@, [index |-> index, player |-> player])]
             s2 == IF checkWin(s1, player)
                     THEN endGame([s1 EXCEPT !.scores[player] = @ + 1])
                   ELSE IF boardFull(s1.board)
                     THEN endGame([s1 EXCEPT !.scores["Draw"] = @ + 1])
                   ELSE [s1 EXCEPT !.currentPlayer = Other(@)]
         IN  IF s2.mode = "vsComputer" /\ s2.currentPlayer = "O" /\ ~s2.gameOver
               THEN [s2 EXCEPT !.timers = Append(@, computerMoveTimer)]
               ELSE s2

\* newGame clearing the scores as well
newGameClearScores(st) ==
    [st EXCEPT !.board = FillNull(@),
               !.currentPlayer = "X",
               !.moveHistory = <<>>,
               !.gameOver = FALSE,
               !.popupHidden = TRUE,
               !.scores = ZeroScores]

newGame(st) ==
    [st EXCEPT !.board = FillNull(@),
               !.currentPlayer = "X",
               !.moveHistory = <<>>,
               !.gameOver = FALSE,
               !.popupHidden = TRUE]

\* undoCount ignoring the mode
undoCountOne(st) == 1

undoCount(st) ==
    IF st.mode = "vsComputer" /\ Len(st.moveHistory) > 1 THEN 2 ELSE 1

RECURSIVE popMoves(_, _)
popMoves(st, n) ==
    IF n = 0 THEN st
    ELSE IF Len(st.moveHistory) = 0 THEN popMoves(st, n - 1)
    ELSE LET lastMove == st.moveHistory[Len(st.moveHistory)]
         IN  popMoves([st EXCEPT !.moveHistory = SubSeq(@, 1, Len(@) - 1),
                                 !.board[lastMove.index] = NULL], n - 1)

\* undoMove without the gameOver test
undoMoveAfterEnd(st) ==
    IF Len(st.moveHistory) = 0 THEN st
    ELSE LET s1 == popMoves(st, undoCount(st))
         IN  [s1 EXCEPT !.currentPlayer =
                 IF Len(s1.moveHistory) > 0
                   THEN Other(s1.moveHistory[Len(s1.moveHistory)].player)
                   ELSE "X"]

undoMove(st) ==
    IF Len(st.moveHistory) = 0 \/ st.gameOver THEN st
    ELSE LET s1 == popMoves(st, undoCount(st))
         IN  [s1 EXCEPT !.currentPlayer =
                 IF Len(s1.moveHistory) > 0
                   THEN Other(s1.moveHistory[Len(s1.moveHistory)].player)
                   ELSE "X"]

(* ---------------- AI logic ---------------- *)
RECURSIVE emptyCellsFrom(_, _)
emptyCellsFrom(b, c) ==
    IF c > 8 THEN <<>>
    ELSE IF b[c] = NULL THEN <<c>> \o emptyCellsFrom(b, c + 1)
    ELSE emptyCellsFrom(b, c + 1)

emptyCells(b) == emptyCellsFrom(b, 0)

\* emptyCells[Math.floor(Math.random() * emptyCells.length)], r the floor
getEasyMove(b, r) ==
    LET ec == emptyCells(b)
    IN  IF r < Len(ec) THEN ec[r + 1] ELSE UNDEF

Max(a, b) == IF a >= b THEN a ELSE b
Min(a, b) == IF a <= b THEN a ELSE b

RECURSIVE bestScanLast(_, _, _, _, _)
\* the selection loops with >= and <=: the last extreme wins
bestScanLast(moves, player, i, bestScore, bestMove) ==
    IF i > Len(moves) THEN bestMove
    ELSE IF (player = "O" /\ moves[i].score >= bestScore)
            \/ (player # "O" /\ moves[i].score <= bestScore)
           THEN bestScanLast(moves, player, i + 1, moves[i].score, i)
           ELSE bestScanLast(moves, player, i + 1, bestScore, bestMove)

RECURSIVE bestScan(_, _, _, _, _)
\* the two selection loops of minimax: strict comparison, first extreme wins
bestScan(moves, player, i, bestScore, bestMove) ==
    IF i > Len(moves) THEN bestMove
    ELSE IF (player = "O" /\ moves[i].score > bestScore)
            \/ (player # "O" /\ moves[i].score < bestScore)
           THEN bestScan(moves, player, i + 1, moves[i].score, i)
           ELSE bestScan(moves, player, i + 1, bestScore, bestMove)

\* the pruning test with the comparison turned round
pruneCutInverted(alpha, beta) == alpha <= beta

pruneCut(alpha, beta) == alpha >= beta

\* the loop body without its "Backtrack" assignment
backtrackSkipped(b, c) == b

\* currentBoard[emptyCells[i]] = null
backtrack(b, c) == [b EXCEPT ![c] = NULL]

\* minimax works on the array it is handed: `board` in its result and in the
\* loop's result is that array as the call leaves it
RECURSIVE minimax(_, _, _, _), searchLoop(_, _, _, _, _, _, _)
searchLoop(currentBoard, player, alpha, beta, cells, i, moves) ==
    IF i > Len(cells) THEN [moves |-> moves, board |-> currentBoard]
    ELSE LET placed == [currentBoard EXCEPT ![cells[i]] = player]
             result == minimax(placed, Other(player), alpha, beta)
             alpha2 == IF player = "O" THEN Max(alpha, result.score) ELSE alpha
             beta2  == IF player = "O" THEN beta ELSE Min(beta, result.score)
             restored == backtrack(result.board, cells[i])
             moves2 == Append(moves, [index |-> cells[i], score |-> result.score])
         IN  IF pruneCut(alpha2, beta2) THEN [moves |-> moves2, board |-> restored]
             ELSE searchLoop(restored, player, alpha2, beta2, cells, i + 1, moves2)

minimax(currentBoard, player, alpha, beta) ==
    IF checkWinOnBoard(currentBoard, "X")
      THEN [index |-> UNDEF, score |-> -10, board |-> currentBoard]
    ELSE IF checkWinOnBoard(currentBoard, "O")
      THEN [index |-> UNDEF, score |-> 10, board |-> currentBoard]
    ELSE LET cells == emptyCells(currentBoard)
         IN  IF Len(cells) = 0
               THEN [index |-> UNDEF, score |-> 0, board |-> currentBoard]
             ELSE LET loop == searchLoop(currentBoard, player, alpha, beta, cells, 1, <<>>)
                      best == loop.moves[bestScan(loop.moves, player, 1,
                                     IF player = "O" THEN -Infinity ELSE Infinity, 0)]
                  IN  [index |-> best.index, score |-> best.score, board |-> loop.board]

\* minimax(state.board, 'O', -Infinity, Infinity): the index it returns and
\* the cells as it leaves them
searchIndex(cellsOfBoard) ==
    LET result == minimax(cellsOfBoard, "O", -Infinity, Infinity)
    IN  [index |-> result.index, board |-> result.board]

marks(b) == Cardinality({c \in Cells : b[c] # NULL})

\* The search reads cells 0..8 only and is a function of them.  Its results on
\* the boards with at most one mark, where the tree is deepest,
\* are computed once and looked up afterwards.
tabulated(b) == marks(b) <= 1

searchTable ==
    [b \in {x \in [Cells -> {NULL, "X", "O"}] : tabulated(x)}
        |-> searchIndex(b)] @@ <<>>

\* the search's answer on state.board: its index, and state.board after it
searchOn(b) ==
    LET cellsOfBoard == [c \in Cells |-> b[c]]
        result == IF tabulated(b) THEN searchTable[cellsOfBoard]
                  ELSE searchIndex(cellsOfBoard)
    IN  [index |-> result.index,
         board |-> [s \in Slots |-> IF s \in Cells THEN result.board[s] ELSE b[s]]]

getBestMove(b) == searchOn(b).index

\* computerMove: disables the board, picks the index, schedules the move
computerMove(st, r) ==
    LET unbeatable == st.difficulty = "unbeatable"
        search == searchOn(st.board)
        moveIndex == IF unbeatable THEN search.index
                     ELSE getEasyMove(st.board, r)
    IN  [st EXCEPT !.pointerEvents = "none",
                   !.board = IF unbeatable THEN search.board ELSE @,
                   !.timers = Append(@, makeMoveTimer(moveIndex))]

\* the callback of the 200 ms timer
delayedMove(st, moveIndex) ==
    [makeMove(st, moveIndex, "O") EXCEPT !.pointerEvents = "auto"]

(* ---------------- timer queue ---------------- *)
\* a pending callback runs before every callback that was scheduled after it
\* with the same or a longer delay
CanFire(q, i) == \A j \in 1..(i - 1) : q[j].delay > q[i].delay

RemoveAt(q, i) == SubSeq(q, 1, i - 1) \o SubSeq(q, i + 1, Len(q))

TotalScore(sc) == sc["X"] + sc["O"] + sc["Draw"]

(* ---------------- the session ---------------- *)
\* lastCall names the handler that ran last and whether it changed the state;
\* used counts what the behaviour has spent of the exploration bounds
Called(op, ok) == lastCall' = [op |-> op, ok |-> ok]

Spend(moves, undos, changes) ==
    /\ used.moves + moves <= MaxMoves
    /\ used.undos + undos <= MaxUndos
    /\ used.changes + changes <= MaxConfigChanges
    /\ used' = [moves |-> used.moves + moves, undos |-> used.undos + undos,
                changes |-> used.changes + changes]

Accepted(st, st2) == Len(st2.moveHistory) - Len(st.moveHistory)

Init ==
    /\ board = EmptyBoard
    /\ currentPlayer = "X"
    /\ mode = "twoPlayers"
    /\ difficulty = "easy"
    /\ gameOver = FALSE
    /\ scores = ZeroScores
    /\ moveHistory = <<>>
    /\ timers = <<>>
    /\ pointerEvents = "auto"
    /\ popupHidden = TRUE
    /\ lastCall = [op |-> "init", ok |-> TRUE]
    /\ used = [moves |-> 0, undos |-> 0, changes |-> 0]

\* the cells a click is tried on: every occupied cell and the first
\* MaxChoices empty ones
ClickTargets(b) ==
    LET ec == emptyCells(b)
    IN  {c \in Cells : b[c] # NULL} \cup {ec[k] : k \in 1..Min(MaxChoices, Len(ec))}

\* board click listener; no click is delivered while computerMove has set
\* pointer-events to none
ClickOn(index) ==
    LET st == makeMove(State, index, currentPlayer)
    IN  /\ pointerEvents = "auto"
        /\ Len(st.timers) <= MaxTimers
        /\ Becomes(st)
        /\ Called("click", Accepted(State, st) = 1)
        /\ Spend(Accepted(State, st), 0, 0)

ClickCell == \E index \in ClickTargets(board) : ClickOn(index)

\* undo button listener; undoMove does its own test of the history and of
\* gameOver
Undo ==
    LET st == undoMove(State)
    IN  /\ Becomes(st)
        /\ Called("undo", st # State)
        /\ Spend(0, IF st # State THEN 1 ELSE 0, 0)

\* new game button listener
NewGameClick ==
    /\ Becomes(newGame([State EXCEPT !.scores = ZeroScores]))
    /\ Called("newGame", TRUE)
    /\ Spend(0, 0, 0)

\* popup "Play Again" button listener; the button lives in the popup, which
\* endGame shows and newGame hides
PlayAgain ==
    /\ ~popupHidden
    /\ Becomes(newGame(State))
    /\ Called("playAgain", TRUE)
    /\ Spend(0, 0, 0)

\* change listener of the mode radio inputs
ModeChange ==
    \E m \in {"twoPlayers", "vsComputer"} \ {mode} :
        /\ Becomes(newGame([State EXCEPT !.mode = m]))
        /\ Called("mode", TRUE)
        /\ Spend(0, 0, 1)

\* change listener of the difficulty radio inputs (shown in vsComputer mode)
DifficultyChange ==
    \E d \in {"easy", "unbeatable"} \ {difficulty} :
        /\ mode = "vsComputer"
        /\ Becomes(newGame([State EXCEPT !.difficulty = d]))
        /\ Called("difficulty", TRUE)
        /\ Spend(0, 0, 1)

\* the 400 ms timer set by makeMove fires
ComputerMoveFires ==
    \E i \in 1..Len(timers) :
        /\ timers[i].fn = "computerMove"
        /\ CanFire(timers, i)
        /\ \E r \in 0..(MaxChoices - 1) :
               /\ r = 0 \/ (difficulty = "easy" /\ r < Len(emptyCells(board)))
               /\ Becomes(computerMove([State EXCEPT !.timers = RemoveAt(@, i)], r))
        /\ Called("computerMove", TRUE)
        /\ Spend(0, 0, 0)

\* the 200 ms timer set by computerMove fires
DelayedMoveAt(i) ==
    LET s0 == [State EXCEPT !.timers = RemoveAt(@, i)]
        st == delayedMove(s0, timers[i].index)
    IN  /\ timers[i].fn = "makeMove"
        /\ CanFire(timers, i)
        /\ Len(st.timers) <= MaxTimers
        /\ Becomes(st)
        /\ Called("delayedMove", Accepted(s0, st) = 1)
        /\ Spend(Accepted(s0, st), 0, 0)

DelayedMoveFires == \E i \in 1..Len(timers) : DelayedMoveAt(i)

Next ==
    \/ ClickCell
    \/ Undo
    \/ NewGameClick
    \/ PlayAgain
    \/ ModeChange
    \/ DifficultyChange
    \/ ComputerMoveFires
    \/ DelayedMoveFires

Spec == Init /\ [][Next]_vars

(* ---------------- one round with repeated undo ---------------- *)
\* The program starts as in Init; the exploration budget is spent differently:
\* RoundUndos undos and RoundMoves moves, one change of mode, no reset buttons.
InitRound ==
    /\ board = EmptyBoard
    /\ currentPlayer = "X"
    /\ mode = "twoPlayers"
    /\ difficulty = "easy"
    /\ gameOver = FALSE
    /\ scores = ZeroScores
    /\ moveHistory = <<>>
    /\ timers = <<>>
    /\ pointerEvents = "auto"
    /\ popupHidden = TRUE
    /\ lastCall = [op |-> "init", ok |-> TRUE]
    /\ used = [moves |-> MaxMoves - RoundMoves, undos |-> MaxUndos - RoundUndos,
               changes |-> MaxConfigChanges - 1]

NextRound ==
    \/ ClickCell
    \/ Undo
    \/ ModeChange
    \/ ComputerMoveFires
    \/ DelayedMoveFires

SpecRound == InitRound /\ [][NextRound]_vars

(* ---------------- optimal policy against any X policy ---------------- *)
\* X plays any empty cell, two players mode, so no timer interferes
AnyXMove ==
    \E index \in Cells :
        /\ currentPlayer = "X" /\ ~gameOver /\ board[index] = NULL
        /\ Becomes(makeMove(State, index, "X"))
        /\ Called("click", TRUE)
        /\ UNCHANGED used

\* O plays the index getBestMove returns on the current board
OptimalOMove ==
    /\ currentPlayer = "O" /\ ~gameOver
    /\ LET search == searchOn(board)
       IN  Becomes(makeMove([State EXCEPT !.board = search.board], search.index, "O"))
    /\ Called("getBestMove", TRUE)
    /\ UNCHANGED used

NextOptimal ==
    \/ AnyXMove
    \/ OptimalOMove

SpecOptimal == Init /\ [][NextOptimal]_vars

(* ---------------- the search as a function of the board ---------------- *)
count(b, player) == Cardinality({c \in Cells : b[c] = player})

\* the boards the search is asked about: nobody has won, a cell is empty and
\* X has moved once more than O
SearchInputs ==
    {b \in [Cells -> {NULL, "X", "O"}] :
        /\ count(b, "X") = count(b, "O") + 1
        /\ ~checkWinOnBoard(b, "X") /\ ~checkWinOnBoard(b, "O")
        /\ \E c \in Cells : b[c] = NULL}

InitSearch ==
    /\ \E b \in SearchInputs : board = [s \in Slots |-> IF s \in Cells THEN b[s] ELSE NULL]
    /\ currentPlayer = "O"
    /\ mode = "vsComputer"
    /\ difficulty = "unbeatable"
    /\ gameOver = FALSE
    /\ scores = ZeroScores
    /\ moveHistory = <<>>
    /\ timers = <<>>
    /\ pointerEvents = "none"
    /\ popupHidden = TRUE
    /\ lastCall = [op |-> "init", ok |-> TRUE]
    /\ used = [moves |-> 0, undos |-> 0, changes |-> 0]

RunSearch ==
    /\ lastCall.op = "init"
    /\ LET result == minimax(board, "O", -Infinity, Infinity)
       IN  /\ lastCall' = [op |-> "minimax", ok |-> TRUE, index |-> result.index]
           /\ board' = result.board
    /\ UNCHANGED <<currentPlayer, mode, difficulty, gameOver, scores,
                   moveHistory, timers, pointerEvents, popupHidden, used>>

NextSearch == RunSearch

SpecSearch == InitSearch /\ [][NextSearch]_vars

(* ======================= claims ======================= *)
MoveAccepted == Len(moveHistory') = Len(moveHistory) + 1
ClickAccepted == lastCall'.op = "click" /\ MoveAccepted

\* the human's X move is the last move made and the computer has not answered
AwaitingComputer ==
    /\ mode = "vsComputer" /\ currentPlayer = "O" /\ ~gameOver
    /\ Len(moveHistory) > 0
    /\ moveHistory[Len(moveHistory)].player = "X"

\* C1: in vsComputer mode, once a human move has made it O's turn without
\* ending the game, no cell click is accepted until the computer's O move is
\* applied or the game ends.
C1_NoClickBeforeReply == [][AwaitingComputer => ~ClickAccepted]_vars

\* C2: with O always playing getBestMove's index from the empty board, no
\* sequence of legal X moves reaches a board with a winning line for X.
C2_OptimalNeverLoses == ~checkWinOnBoard(board, "X")

C2_Witness ==
    /\ gameOver /\ boardFull(board) /\ scores["Draw"] = 1
    /\ lastCall.op = "click" /\ Len(moveHistory) = 9

\* C3: an accepted move is scored win first, then draw, then turn switch: a
\* win of the mover adds 1 to that player's score only and ends the game, even
\* on the last empty cell; otherwise a full board adds 1 to Draw only and ends
\* the game; otherwise no score changes and the game goes on.
C3_WinThenDrawThenSwitch ==
    [][MoveAccepted =>
        LET mover == moveHistory'[Len(moveHistory')].player
        IN  IF checkWinOnBoard(board', mover)
              THEN gameOver' /\ scores' = [scores EXCEPT ![mover] = @ + 1]
            ELSE IF boardFull(board')
              THEN gameOver' /\ scores' = [scores EXCEPT !["Draw"] = @ + 1]
            ELSE ~gameOver' /\ scores' = scores]_vars

\* a win on the last empty cell
C3_Witness ==
    /\ gameOver /\ boardFull(board) /\ checkWinOnBoard(board, "X")
    /\ scores = [X |-> 1, O |-> 0, Draw |-> 0]

GameUnchanged == UNCHANGED <<board, moveHistory, currentPlayer, gameOver, scores>>

\* C4: makeMove on an occupied cell, or when gameOver is true, changes
\* nothing: board, history, currentPlayer, gameOver and scores stay and no
\* computer move is scheduled.
C4_RejectedMoveIsNoOp ==
    [][/\ \A index \in Cells :
            (ClickOn(index) /\ (board[index] # NULL \/ gameOver))
                => (GameUnchanged /\ timers' = timers)
       /\ \A i \in 1..Len(timers) :
            (DelayedMoveAt(i) /\ (board[timers[i].index] # NULL \/ gameOver))
                => (GameUnchanged /\ timers' = RemoveAt(timers, i))]_vars

\* a click on an occupied cell of a running game
C4_Witness == lastCall = [op |-> "click", ok |-> FALSE] /\ ~gameOver

RECURSIVE replay(_, _)
replay(h, k) ==
    IF k = 0 THEN [c \in Cells |-> NULL]
    ELSE [replay(h, k - 1) EXCEPT ![h[k].index] = h[k].player]

\* C5: the history is as long as the number of marked cells, and replaying it
\* onto an empty board gives the current board.
C5_HistoryReplaysToBoard ==
    /\ Len(moveHistory) = marks(board)
    /\ \A k \in 1..Len(moveHistory) : moveHistory[k].index \in Cells
    /\ replay(moveHistory, Len(moveHistory)) = [c \in Cells |-> board[c]]

\* C6: a successful undo takes back the last move in twoPlayers mode or with
\* one move in the history, the last two moves in vsComputer mode with two or
\* more; their cells are cleared, every other cell and the scores stay.  From
\* the history (0,X),(4,O) in vsComputer mode it leaves an empty board, an
\* empty history and X to move.
C6_UndoRemovesMoves ==
    [][(lastCall'.op = "undo" /\ Len(moveHistory) > 0 /\ ~gameOver) =>
        LET n == Len(moveHistory)
            k == IF mode = "twoPlayers" \/ n = 1 THEN 1 ELSE 2
            popped == {moveHistory[j].index : j \in (n - k + 1)..n}
        IN  /\ moveHistory' = SubSeq(moveHistory, 1, n - k)
            /\ board' = [s \in Slots |-> IF s \in popped THEN NULL ELSE board[s]]
            /\ scores' = scores
            /\ (/\ mode = "vsComputer"
                /\ moveHistory = <<[index |-> 0, player |-> "X"],
                                   [index |-> 4, player |-> "O"]>>)
                  => /\ \A c \in Cells : board'[c] = NULL
                     /\ moveHistory' = <<>>
                     /\ currentPlayer' = "X"]_vars

\* one undo has taken back the only two moves made, the human's and the
\* computer's reply, in vsComputer mode
C6_Witness ==
    /\ lastCall = [op |-> "undo", ok |-> TRUE]
    /\ mode = "vsComputer" /\ difficulty = "unbeatable"
    /\ moveHistory = <<>> /\ timers = <<>>
    /\ used.moves = 2 /\ used.undos = 1

\* C7: undo with an empty history, or when gameOver is true, changes nothing.
C7_RejectedUndoIsNoOp ==
    [][(lastCall'.op = "undo" /\ (Len(moveHistory) = 0 \/ gameOver))
          => GameUnchanged]_vars

\* undo asked for on a finished round
C7_Witness == lastCall = [op |-> "undo", ok |-> FALSE] /\ gameOver

RoundReset ==
    /\ \A c \in Cells : board'[c] = NULL
    /\ moveHistory' = <<>> /\ ~gameOver' /\ currentPlayer' = "X"

\* C8: play again, a mode change and a difficulty change reset the round and
\* keep the three scores; new game resets the round and the scores; no other
\* operation lowers a score.
C8_ResetsKeepScores ==
    [][/\ lastCall'.op \in {"playAgain", "mode", "difficulty"}
            => (RoundReset /\ scores' = scores)
       /\ lastCall'.op = "newGame" => (RoundReset /\ scores' = ZeroScores)
       /\ lastCall'.op # "newGame"
            => \A p \in {"X", "O", "Draw"} : scores'[p] >= scores[p]]_vars

\* a difficulty change made with a round already scored
C8_Witness ==
    /\ lastCall.op = "difficulty" /\ TotalScore(scores) = 1
    /\ moveHistory = <<>> /\ ~gameOver

RECURSIVE plainValue(_, _)
\* unpruned minimax: X win -10, O win +10, full board 0
plainValue(b, player) ==
    IF checkWinOnBoard(b, "X") THEN -10
    ELSE IF checkWinOnBoard(b, "O") THEN 10
    ELSE LET free == {c \in Cells : b[c] = NULL}
             vals == {plainValue([b EXCEPT ![c] = player], Other(player)) : c \in free}
         IN  IF free = {} THEN 0
             ELSE IF player = "O" THEN CHOOSE v \in vals : \A w \in vals : w <= v
             ELSE CHOOSE v \in vals : \A w \in vals : w >= v

plainBest(b) ==
    LET free == {c \in Cells : b[c] = NULL}
        val(c) == plainValue([b EXCEPT ![c] = "O"], "X")
        top == {c \in free : \A d \in free : val(d) <= val(c)}
    IN  CHOOSE c \in top : \A d \in top : c <= d

\* C9: on every non-terminal board with O to move the pruned search returns
\* the lowest empty cell whose unpruned minimax value is the largest.
C9_PruningKeepsChoice ==
    lastCall.op = "minimax" => lastCall.index = plainBest(board)

\* the search has answered for a board where the best move is not the first
\* empty cell
C9_Witness ==
    /\ lastCall.op = "minimax"
    /\ lastCall.index # emptyCells(board)[1]
    /\ lastCall.index \in Cells

\* C10: X and O never both hold a complete win pattern.
C10_AtMostOneWinner ==
    ~(checkWinOnBoard(board, "X") /\ checkWinOnBoard(board, "O"))

\* a round won by O through the timer callback, X's marks on the board
C10_Witness ==
    /\ checkWinOnBoard(board, "O") /\ gameOver
    /\ lastCall.op = "delayedMove" /\ count(board, "X") >= 3

\* C11: the numbers of X marks and of O marks on the board differ by at most 1.
C11_CountsBalanced ==
    LET d == count(board, "X") - count(board, "O")
    IN  d \in {-1, 0, 1}

Terminal(b) ==
    \/ checkWinOnBoard(b, "X") \/ checkWinOnBoard(b, "O")
    \/ boardFull(b)

\* C12: a run of the search (minimax on the live board from getBestMove)
\* leaves the board exactly as it was, pruned branches included, and leaves
\* history, currentPlayer, gameOver and scores alone.
C12_SearchRestoresBoard ==
    [][lastCall'.op = "minimax"
          => /\ board' = board
             /\ UNCHANGED <<moveHistory, currentPlayer, gameOver, scores>>]_vars

\* the search on b cuts a branch off: with alpha raised by the first empty
\* cell's score, X's loop below the second empty cell stops before its last cell
prunedBelow(b) ==
    LET cells  == emptyCells(b)
        first  == minimax([b EXCEPT ![cells[1]] = "O"], "X", -Infinity, Infinity)
        second == [b EXCEPT ![cells[2]] = "O"]
        replies == emptyCells(second)
    IN  /\ ~checkWinOnBoard(second, "O")
        /\ Len(searchLoop(second, "X", first.score, Infinity, replies, 1, <<>>).moves)
               < Len(replies)

C12_Witness ==
    /\ lastCall.op = "minimax"
    /\ marks(board) = 3
    /\ lastCall.index \in Cells
    /\ prunedBelow(board)

\* C13: whenever computerMove has just run, it ran on a board with an empty
\* cell and no winning line, and the index it scheduled is a cell.
C13_NoSearchOnTerminalBoard ==
    lastCall.op = "computerMove"
        => /\ ~Terminal(board)
           /\ \A i \in 1..Len(timers) :
                  timers[i].fn = "makeMove" => timers[i].index \in Cells

\* C14: while mode = vsComputer and difficulty = unbeatable the X score is
\* never incremented.
C14_UnbeatableNeverLoses ==
    [][(mode = "vsComputer" /\ difficulty = "unbeatable")
          => scores'["X"] <= scores["X"]]_vars

PendingMove == \E i \in 1..Len(timers) : timers[i].fn = "makeMove"

\* C15: from the moment computerMove has chosen the index until the delayed
\* makeMove runs, board, history and mode do not change: the only step that
\* changes them while a delayed move is pending is that delayed move.
C15_MoveAppliedToItsBoard ==
    [][(PendingMove /\ (board' # board \/ moveHistory' # moveHistory \/ mode' # mode))
          => lastCall'.op = "delayedMove"]_vars

ComputerToMove == mode = "vsComputer" /\ currentPlayer = "O" /\ ~gameOver

\* C16: the game never stalls on the computer's turn: whenever it is O's
\* turn in vsComputer mode and the round is open, a timer is pending that will
\* bring the computer's move (with no timer pending and no user intent,
\* nothing ever runs again).
C16_ComputerTurnScheduled ==
    ComputerToMove => timers # <<>>

\* C17: while the game is not over, currentPlayer is the opponent of the
\* player of the last history entry, or X when the history is empty.
C17_TurnFollowsHistory ==
    ~gameOver =>
        currentPlayer = IF Len(moveHistory) = 0 THEN "X"
                        ELSE Other(moveHistory[Len(moveHistory)].player)

\* C18: a non-empty history starts with a move of X, and no computer move is
\* applied while mode = twoPlayers.
C18_XOpensTheRound ==
    /\ Len(moveHistory) > 0 => moveHistory[1].player = "X"
    /\ (lastCall = [op |-> "delayedMove", ok |-> TRUE]) => mode = "vsComputer"

\* C19: gameOver is true exactly when the board is terminal (a complete win
\* pattern or no empty cell); moves are accepted and undo succeeds only on
\* non-terminal boards; the scores grow by exactly one at the step that ends
\* a round and at no other step.
C19_GameOverIffTerminal ==
    /\ [](gameOver <=> Terminal(board))
    /\ [][/\ (lastCall'.op \in {"click", "delayedMove", "undo"} /\ lastCall'.ok
                /\ (board' # board \/ moveHistory' # moveHistory))
               => ~Terminal(board)
           /\ IF ~gameOver /\ gameOver'
                THEN TotalScore(scores') = TotalScore(scores) + 1
                ELSE TotalScore(scores') \in {TotalScore(scores), 0}]_vars

C19_Witness ==
    /\ gameOver
    /\ boardFull(board)
    /\ ~checkWinOnBoard(board, "X") /\ ~checkWinOnBoard(board, "O")
    /\ scores["Draw"] = 1

====
